---- MODULE Spec2Model ----
(***************************************************************************)
(* A model of the connection-resilience and event-relay engine of the     *)
(* 3CX relay: CallControlWebSocket (the stream session), ConnectionMonitor *)
(* (the health monitor), XAPIClient (the token source), ErrorTracker and   *)
(* the fan-out of RelayService.                                            *)
(*                                                                         *)
(* Time is abstracted: a pending timer may fire at any later step, and     *)
(* timestamps (lastCheck, timestamp) are left out.  The ws library and the *)
(* network are the environment: a socket that is CONNECTING ends in an     *)
(* 'open' or an 'error' event, an 'error' is followed by 'close', and an   *)
(* OPEN socket may be dropped by the remote end at any time.               *)
(***************************************************************************)
EXTENDS Integers, Sequences, FiniteSets, TLC

VARIABLES
    phase,              \* lifecycle of the process: new, starting, running, stopping, exited
    ws,                 \* CallControlWebSocket.ws: the socket it refers to (NullSock: null)
    leaked,             \* the sockets this.ws no longer refers to that can still emit events
    reconnectAttempts,  \* CallControlWebSocket.reconnectAttempts
    isConnected,        \* CallControlWebSocket.isConnected
    timers,             \* number of pending reconnect timers (setTimeout of reconnect())
    eventHandlers,      \* CallControlWebSocket.eventHandlers: the handlers, in insertion order
    closeEvents,        \* history: 'close' events handled since construction / the last 'open'
    scheduled,          \* history: reconnect timers scheduled since then
    exhausted,          \* history: 'max_reconnect_reached' emitted since then
    status,             \* ConnectionMonitor.status
    intervalId,         \* ConnectionMonitor.intervalId: Null, or Timer (a timer handle)
    intervals,          \* number of setInterval timers that are active
    pendingChecks,      \* health checks awaiting their upstream, per component
    pendingAuth,        \* authenticate() requests awaiting the token endpoint, per caller
    hungChecks,         \* history: health checks whose upstream will never answer
    pendingReconnects,  \* reconnect operations awaiting their upstream, per component
    errors,             \* ErrorTracker.errors, newest first
    nextId,             \* the id the next DiagnosticEvent gets
    xapi,               \* XAPIClient: token and tokenExpiry (the Credential)
    now,                \* Date.now(), in ms since construction
    relayClients,       \* RelayService.relayClients: the attached subscribers
    clientState,        \* readyState of each downstream transport
    received,           \* what each downstream transport was sent since it attached
    arrived,            \* history: the messages handleMessage parsed, in order
    attachedAt,         \* history: Len(arrived) when each subscriber attached
    listeners,          \* the callers of subscribe() besides the relay, and their handles
    calls,              \* history: the events each of these listeners was invoked with
    step                \* what the handler that ran last did (its observable effects)

vars == <<phase, ws, leaked, reconnectAttempts, isConnected, timers, eventHandlers,
          closeEvents, scheduled, exhausted, status, intervalId, intervals,
          pendingChecks, pendingAuth, hungChecks, pendingReconnects, errors, nextId,
          xapi, now, relayClients, clientState, received,
          arrived, attachedAt, listeners, calls, step>>

sessionVars == <<ws, leaked, reconnectAttempts, isConnected, timers, eventHandlers,
                 closeEvents, scheduled, exhausted>>
checkVars   == <<pendingChecks, pendingAuth, hungChecks>>
monitorVars == <<status, intervalId, intervals, checkVars, pendingReconnects>>
tokenVars   == <<xapi, now>>
trackerVars == <<errors, nextId>>
listenerVars == <<listeners, calls>>
relayVars   == <<relayClients, clientState, received, arrived, attachedAt, listenerVars>>

----------------------------------------------------------------------------
(* Bounds of the model *)

MaxSockets == 2
MaxTimers == 1
MaxCloses == 12
MaxLog == 1
MaxIntervals == 2
MaxPending == 1
MaxClients == 2
MaxMsgs == 2
MaxListeners == 2
MaxHung == 1
MaxMinutes == 5
MaxEntries == 2

(* Program constants *)

maxReconnectAttempts == 10
reconnectDelay == 5000
maxBufferSize == 1000
safetyMargin == 60000

Null == "null"
Timer == "timer"
Components == {"database", "xapi", "websocket"}

Min(a, b) == IF a < b THEN a ELSE b
Max(a, b) == IF a > b THEN a ELSE b

RECURSIVE Pow(_, _)
Pow(b, k) == IF k <= 0 THEN 1 ELSE b * Pow(b, k - 1)

\* Delays are kept in units of 1/Scale ms, so that 1.5^k stays an integer.
Scale == Pow(2, maxReconnectAttempts - 1)

----------------------------------------------------------------------------
(* The observable effects of one handler run *)

NoUpdate == [component |-> "none", state |-> "none"]
NoCredential == [token |-> "null", tokenExpiry |-> 0]
NoResponse == [access_token |-> "null", expires_in |-> 0]
NoFilter == [component |-> <<>>, severity |-> <<>>, acknowledged |-> <<>>, limit |-> <<>>]
NoTimer  == [n |-> 0, delay |-> 0]

\* op: the handler; origin: the caller of the connect() that made the socket;
\* uncaught: it threw out of the handler; ret: what the operation that ended
\* returned; deliberate: the socket had been closed by close(); stale: the
\* timer had been scheduled before a close(); update: its updateStatus call;
\* events: what it emitted, in order; timer: the timer it scheduled; settled:
\* what it did to the promise of connect() (resolved, rejected); before: the
\* attempt counter and the number of 'max_reconnect_reached' notifications
\* when an 'open' handler started
\* auth: what became of the handler's use of the token source (requested: an
\* authenticate() request was sent; valid: ensureValidToken() sent none;
\* stored: authenticate() returned; raised: it threw); held: the Credential
\* when the handler started; response: the token endpoint's answer; id: the
\* id the operation was given or returned; evicted: the id of the entry
\* logError dropped (0: none); filter, result: getErrors' argument and what
\* it returned; count: what clearAcknowledged returned
NoView == [head |-> 0, len |-> 0]

NoStats == [total |-> 0, bySeverity |-> <<>>, byComponent |-> <<>>,
            acknowledged |-> 0, unacknowledged |-> 0]

NoStep == [op |-> "none", origin |-> "none", uncaught |-> FALSE, ret |-> "none",
           deliberate |-> FALSE, stale |-> FALSE, update |-> NoUpdate,
           events |-> <<>>, timer |-> NoTimer, settled |-> "none",
           before |-> [attempts |-> 0, exhausted |-> 0],
           auth |-> "none", held |-> NoCredential, response |-> NoResponse,
           id |-> 0, evicted |-> 0, filter |-> NoFilter, result |-> <<>>, count |-> 0,
           stats |-> NoStats, persisted |-> "none", seen |-> NoView]

Ev(type) == [type |-> type]

----------------------------------------------------------------------------
(* ErrorTracker *)

\* Variant of logError without the eviction
LogErrorUnbounded(errs, id, component, severity, message) ==
    <<[id |-> id, component |-> component, severity |-> severity,
       message |-> message, acknowledged |-> FALSE]>> \o errs

\* Variant of logError that inserts with push() and evicts with shift()
LogErrorAtTail(errs, id, component, severity, message) ==
    LET e == [id |-> id, component |-> component, severity |-> severity,
              message |-> message, acknowledged |-> FALSE]
        all == Append(errs, e)
    IN  IF Len(all) > maxBufferSize THEN Tail(all) ELSE all

\* logError (lines 254-282): unshift, then pop when the buffer is over its size
LogError(errs, id, component, severity, message) ==
    LET e == [id |-> id, component |-> component, severity |-> severity,
              message |-> message, acknowledged |-> FALSE]
        all == <<e>> \o errs
    IN  IF Len(all) > maxBufferSize THEN SubSeq(all, 1, Len(all) - 1) ELSE all

\* What a 'new_error' listener finds when it reads the buffer: its first
\* entry and its length
View(errs) == IF errs = <<>> THEN NoView ELSE [head |-> errs[1].id, len |-> Len(errs)]

\* Variant of logError that emits 'new_error' before the unshift
AtEmitBefore(before, after) == before

\* logError (lines 256-281): emit('new_error', error) is the last statement
\* before the return, after the unshift and the pop
AtEmit(before, after) == after

\* logError (lines 275-279) and persistError (lines 289-298): no INSERT
\* without this.db and this.db.client; a failed INSERT is caught
Persistence == {"detached", "stored", "failed"}
PersistError(db) ==
    CASE db = "detached" -> "skipped"
      [] db = "stored" -> "stored"
      [] db = "failed" -> "caught"

\* the id of the entry logError drops from errs (0: none)
Evicted(errs) == IF Len(errs) + 1 > maxBufferSize THEN errs[Len(errs)].id ELSE 0

\* Variant of acknowledgeError that flips the flag of the entry
AcknowledgeErrorToggle(errs, id) ==
    LET found == {i \in DOMAIN errs : errs[i].id = id}
    IN  IF found # {}
        THEN LET k == CHOOSE i \in found : \A j \in found : i <= j
             IN  [errors |-> [errs EXCEPT ![k].acknowledged = ~errs[k].acknowledged],
                  ret |-> "true"]
        ELSE [errors |-> errs, ret |-> "false"]

\* acknowledgeError (lines 332-351): find() returns the first entry with the id
AcknowledgeError(errs, id) ==
    LET found == {i \in DOMAIN errs : errs[i].id = id}
    IN  IF found # {}
        THEN LET k == CHOOSE i \in found : \A j \in found : i <= j
             IN  [errors |-> [errs EXCEPT ![k].acknowledged = TRUE], ret |-> "true"]
        ELSE [errors |-> errs, ret |-> "false"]

\* Variant of clearAcknowledged that returns the length after the filter
ClearAcknowledgedNewLength(errs) ==
    LET kept == SelectSeq(errs, LAMBDA e : ~e.acknowledged)
    IN  [errors |-> kept, count |-> Len(kept)]

\* clearAcknowledged (lines 391-395)
ClearAcknowledged(errs) ==
    LET kept == SelectSeq(errs, LAMBDA e : ~e.acknowledged)
    IN  [errors |-> kept, count |-> Len(errs) - Len(kept)]

\* A field of a filter is a sequence: empty when the caller left it out
Given(f) == f # <<>>

\* if (filters.limit): 0 is not truthy
Truthy(f) == Given(f) /\ f[1] # 0

\* slice(0, n) for n >= 0
Slice(list, n) == SubSeq(list, 1, Min(n, Len(list)))

\* getErrors (lines 305-325)
GetErrors(errs, filters) ==
    LET byComponent == IF Given(filters.component)
                       THEN SelectSeq(errs, LAMBDA e : e.component = filters.component[1])
                       ELSE errs
        bySeverity == IF Given(filters.severity)
                      THEN SelectSeq(byComponent, LAMBDA e : e.severity = filters.severity[1])
                      ELSE byComponent
        byAcknowledged == IF Given(filters.acknowledged)
                          THEN SelectSeq(bySeverity,
                                         LAMBDA e : e.acknowledged = filters.acknowledged[1])
                          ELSE bySeverity
    IN  IF Truthy(filters.limit) THEN Slice(byAcknowledged, filters.limit[1])
        ELSE byAcknowledged

\* The number of entries of errs that satisfy Test
Count(errs, Test(_)) == Cardinality({i \in DOMAIN errs : Test(errs[i])})

\* Variant of getStatistics that counts every entry as unacknowledged
GetStatisticsNoElse(errs) ==
    [total |-> Len(errs),
     bySeverity |-> [s \in {errs[i].severity : i \in DOMAIN errs} |->
                        Count(errs, LAMBDA e : e.severity = s)],
     byComponent |-> [c \in {errs[i].component : i \in DOMAIN errs} |->
                         Count(errs, LAMBDA e : e.component = c)],
     acknowledged |-> Count(errs, LAMBDA e : e.acknowledged),
     unacknowledged |-> Len(errs)]

\* getStatistics (lines 357-385): a key of bySeverity and of byComponent
\* exists once an entry has counted for it; last24Hours, a count over the
\* wall-clock timestamps, is left out
GetStatistics(errs) ==
    [total |-> Len(errs),
     bySeverity |-> [s \in {errs[i].severity : i \in DOMAIN errs} |->
                        Count(errs, LAMBDA e : e.severity = s)],
     byComponent |-> [c \in {errs[i].component : i \in DOMAIN errs} |->
                         Count(errs, LAMBDA e : e.component = c)],
     acknowledged |-> Count(errs, LAMBDA e : e.acknowledged),
     unacknowledged |-> Count(errs, LAMBDA e : ~e.acknowledged)]

----------------------------------------------------------------------------
(* XAPIClient: the token source.  tokenExpiry is null until the first       *)
(* authenticate() returns; null is 0 in the arithmetic of ensureValidToken. *)

\* the answers of the token endpoint: a token and its lifetime in seconds
FirstResponse == [access_token |-> "t1", expires_in |-> 60]
Responses == {FirstResponse, [access_token |-> "t2", expires_in |-> 300]}

\* the callers of ensureValidToken(): checkXAPI and the two REST routes
AuthCallers == {"check", "active-calls", "call-history"}

\* Variant of authenticate() that takes the lifetime for the expiry
StoreLifetimeOnly(response, t) ==
    [token |-> response.access_token, tokenExpiry |-> response.expires_in * 1000]

\* authenticate() (lines 910-911) when the token endpoint answered at time t
Store(response, t) ==
    [token |-> response.access_token, tokenExpiry |-> t + response.expires_in * 1000]

\* Variant of reconnectXAPI that keeps the Credential
DiscardNothing(x) == x

\* reconnectXAPI, line 197: this.xapi.token = null
Discard(x) == [x EXCEPT !.token = Null]

\* Variant of the test of ensureValidToken that excludes the boundary
NeedsAuthenticateStrict(x, t) == x.token = Null \/ t > x.tokenExpiry - safetyMargin

\* the test of ensureValidToken() (line 927)
NeedsAuthenticate(x, t) == x.token = Null \/ t >= x.tokenExpiry - safetyMargin

\* ensureValidToken() (lines 925-930) up to its await: the requests in flight
EnsureValidToken(pa, caller, x, t) ==
    IF NeedsAuthenticate(x, t) THEN [pa EXCEPT ![caller] = @ + 1] ELSE pa

----------------------------------------------------------------------------
(* ConnectionMonitor.updateStatus *)

\* Variant of statusChanged that notifies on every update
StatusChangedAlways(previousState, state) == TRUE

\* Variant of statusChanged that notifies of every 'error' result
StatusChangedOrError(previousState, state) == previousState # state \/ state = "error"

StatusChanged(previousState, state) == previousState # state

\* Variant of updateStatus that records the result for every component
UpdateStatusShared(st, component, state, latency, error) ==
    [status |-> [c \in Components |->
                    [state |-> state, latency |-> latency, error |-> error]],
     events |-> IF StatusChanged(st[component].state, state)
                THEN <<[type |-> "state_change", component |-> component,
                        previousState |-> st[component].state, newState |-> state,
                        latency |-> latency, error |-> error]>>
                ELSE <<>>]

\* Variant of updateStatus that reports the state the component was
\* constructed with as the previous state
UpdateStatusFirstPrevious(st, component, state, latency, error) ==
    LET previousState == "disconnected"
    IN  [status |-> [st EXCEPT ![component] =
                        [state |-> state, latency |-> latency, error |-> error]],
         events |-> IF StatusChanged(previousState, state)
                    THEN <<[type |-> "state_change", component |-> component,
                            previousState |-> previousState, newState |-> state,
                            latency |-> latency, error |-> error]>>
                    ELSE <<>>]

UpdateStatus(st, component, state, latency, error) ==
    LET previousState == st[component].state
    IN  [status |-> [st EXCEPT ![component] =
                        [state |-> state, latency |-> latency, error |-> error]],
         events |-> IF StatusChanged(previousState, state)
                    THEN <<[type |-> "state_change", component |-> component,
                            previousState |-> previousState, newState |-> state,
                            latency |-> latency, error |-> error]>>
                    ELSE <<>>]

----------------------------------------------------------------------------
(* CallControlWebSocket *)

\* A socket object: st is its state in the ws library (ABORTING: closed while
\* CONNECTING, its 'error' event is due), waiter is who awaits the promise of
\* the connect() call that created it while that promise is pending,
\* deliberate (history) whether close() closed it.  A CLOSING socket with a
\* waiter is one whose 'error' handler threw during the handshake: its promise
\* stays pending, and the ws library emits its 'close' event after the
\* 'error' event in the same call, so that event is not certain to follow.
Callers == {"init", "timer", "reconnect"}
SockKinds ==
    [st : {"CONNECTING"}, waiter : Callers, deliberate : {FALSE}]
    \cup [st : {"OPEN"}, waiter : {"none"}, deliberate : {FALSE}]
    \cup [st : {"ABORTING"}, waiter : Callers, deliberate : {TRUE}]
    \cup [st : {"CLOSING"}, waiter : Callers \cup {"none"}, deliberate : BOOLEAN]
NullSock   == [st |-> "NULL", waiter |-> "none", deliberate |-> FALSE]
ClosedSock == [st |-> "CLOSED", waiter |-> "none", deliberate |-> FALSE]

\* WebSocket.readyState of a socket object
ReadyState(r) ==
    CASE r.st = "CONNECTING" -> "CONNECTING"
      [] r.st = "OPEN"       -> "OPEN"
      [] r.st = "ABORTING"   -> "CLOSING"
      [] r.st = "CLOSING"    -> "CLOSING"
      [] OTHER               -> "CLOSED"

\* getReadyState()
GetReadyState(w) == IF w # NullSock THEN ReadyState(w) ELSE "CLOSED"

\* A socket whose 'message' handler can still run
Live(r) == r.st \in {"CONNECTING", "OPEN"}

RECURSIVE SumOver(_, _)
SumOver(f, S) == IF S = {} THEN 0
                 ELSE LET x == CHOOSE y \in S : TRUE IN f[x] + SumOver(f, S \ {x})

SocketCount == SumOver(leaked, SockKinds) + (IF ws \in SockKinds THEN 1 ELSE 0)
LiveCount == SumOver(leaked, {k \in SockKinds : Live(k)}) + (IF Live(ws) THEN 1 ELSE 0)

\* The socket objects that can still emit an event are kept; a CLOSED socket
\* this.ws does not refer to is dropped from the model.
Keep(lk, r) == IF r \in SockKinds THEN [lk EXCEPT ![r] = @ + 1] ELSE lk
Drop(lk, r) == [lk EXCEPT ![r] = @ - 1]

\* A socket event is an event of the socket this.ws refers to (cur) or of one
\* it no longer refers to
Has(cur, r) == IF cur THEN ws = r ELSE leaked[r] > 0
WsAfter(cur, q) == IF cur THEN q ELSE ws
LeakedAfter(cur, r, q) == IF cur THEN leaked ELSE Keep(Drop(leaked, r), q)

\* connect() (lines 25-72): a new socket with all handlers attached replaces
\* this.ws; the socket this.ws referred to keeps its handlers
ConnectLeaked(lk, w) == Keep(lk, w)
ConnectWs(origin) == [st |-> "CONNECTING", waiter |-> origin, deliberate |-> FALSE]

\* Variant of ws.close() that leaves the socket as it is
WsCloseNoop(r) == r

\* ws.close() of the ws library on a socket object
WsClose(r) ==
    CASE r.st = "CONNECTING" -> [r EXCEPT !.st = "ABORTING", !.deliberate = TRUE]
      [] r.st = "OPEN"       -> [r EXCEPT !.st = "CLOSING", !.deliberate = TRUE]
      [] OTHER               -> r

\* close() (lines 150-156)
CloseLeaked(lk, w) == IF w # NullSock THEN Keep(lk, WsClose(w)) ELSE lk
CloseWs(w) == NullSock
CloseConnected(w, c) == IF w # NullSock THEN FALSE ELSE c

\* history only: the pending timers were scheduled before a close() call
MarkStale(tm) == [fresh |-> 0, stale |-> tm.fresh + tm.stale]

\* Math.pow(1.5, k), times Scale
Pow15(k) == Pow(3, k) * Pow(2, (maxReconnectAttempts - 1) - k)

\* Variant of the ceiling test that lets one more attempt through
CeilingReachedStrict(attempts) == attempts > maxReconnectAttempts

\* Variant of reconnect() with no ceiling
CeilingReachedNever(attempts) == FALSE

\* the test of line 112
CeilingReached(attempts) == attempts >= maxReconnectAttempts

\* Variant of the delay that grows linearly
ReconnectDelayLinear(attempts) == reconnectDelay * attempts * Scale

\* the delay of line 119, for the value reconnectAttempts has after line 118
ReconnectDelayFor(attempts) == reconnectDelay * Pow15(attempts - 1)

\* reconnect() (lines 111-129): the attempt counter, the timer it schedules
\* and what it emits
Reconnect(attempts) ==
    IF CeilingReached(attempts)
    THEN [attempts |-> attempts, timer |-> NoTimer, events |-> <<Ev("max_reconnect_reached")>>]
    ELSE [attempts |-> attempts + 1,
          timer |-> [n |-> attempts + 1, delay |-> ReconnectDelayFor(attempts + 1)],
          events |-> <<>>]

\* Variant of the 'open' handler that keeps the attempt counter
AttemptsOnOpenKept(attempts) == attempts

\* 'open' handler, line 42: this.reconnectAttempts = 0
AttemptsOnOpen(attempts) == 0

\* RelayService.initialize registers no 'error' listener on the session, and
\* EventEmitter.emit('error') throws when there is none.
HasErrorListener == FALSE

----------------------------------------------------------------------------
(* ConnectionMonitor.checkWebSocket and checkAllConnections *)

ClassifyOpenOnly(readyState) ==
    IF readyState = "OPEN" THEN [state |-> "connected", error |-> "null"]
    ELSE [state |-> "disconnected", error |-> "WebSocket not open"]

\* Variant of the classification that records a socket that is neither
\* open nor connecting as an error
ClassifyOtherAsError(readyState) ==
    CASE readyState = "OPEN"       -> [state |-> "connected", error |-> "null"]
      [] readyState = "CONNECTING" -> [state |-> "connecting", error |-> "null"]
      [] OTHER                     -> [state |-> "error", error |-> "WebSocket not open"]

ClassifyReadyState(readyState) ==
    CASE readyState = "OPEN"       -> [state |-> "connected", error |-> "null"]
      [] readyState = "CONNECTING" -> [state |-> "connecting", error |-> "null"]
      [] OTHER                     -> [state |-> "disconnected", error |-> "WebSocket not open"]

\* checkWebSocket(): synchronous, it ends in one updateStatus call
CheckWebSocket(st, readyState) ==
    LET c == ClassifyReadyState(readyState)
    IN  UpdateStatus(st, "websocket", c.state, "null", c.error)

\* Variant of the cycle that waits for the checks of the cycle before
IssueChecksUnlessHung(pc) ==
    IF \E c \in DOMAIN hungChecks : hungChecks[c] > 0 THEN pc
    ELSE [pc EXCEPT !["database"] = @ + 1, !["xapi"] = @ + 1]

\* checkAllConnections(): the database and the token check are left awaiting
\* their upstream, the stream check has run when it returns
IssueChecks(pc) == [pc EXCEPT !["database"] = @ + 1, !["xapi"] = @ + 1]

\* stopMonitoring() (lines 40-46): clearInterval stops the timer intervalId refers to
StopIntervals(iid, n) == IF iid # Null THEN n - 1 ELSE n

----------------------------------------------------------------------------
(* CallControlWebSocket.subscribe: the handler map *)

\* The handler RelayService.initialize subscribes (lines 563-565), and the
\* other callers of subscribe()
RelayHandler == "relay"
ListenerIds == <<"L1", "L2", "L3">>
Listeners == {ListenerIds[i] : i \in 1..MaxListeners}

\* reg: none (never subscribed), on (in the map), off (its handle was called);
\* throws: the callback raises when invoked; from, to (history): Len(arrived)
\* when it subscribed and when its handle was first called
NoListener == [reg |-> "none", throws |-> FALSE, from |-> 0, to |-> 0]

\* Map.set(id, handler) with a new id: appended in insertion order
Set(hs, h) == Append(hs, h)

\* Variant of the unsubscribe handle that deletes nothing
DeleteNothing(hs, h) == hs

\* Map.delete(id) (line 105): no effect when the id is not in the map
Delete(hs, h) == SelectSeq(hs, LAMBDA x : x # h)

In(hs, h) == \E i \in DOMAIN hs : hs[i] = h

----------------------------------------------------------------------------
Init ==
    /\ phase = "new"
    /\ ws = NullSock
    /\ leaked = [k \in SockKinds |-> 0]
    /\ reconnectAttempts = 0
    /\ isConnected = FALSE
    /\ timers = [fresh |-> 0, stale |-> 0]
    /\ eventHandlers = <<>>
    /\ closeEvents = 0
    /\ scheduled = 0
    /\ exhausted = 0
    /\ status = [c \in Components |->
                   [state |-> "disconnected", latency |-> "null", error |-> "null"]]
    /\ intervalId = Null
    /\ intervals = 0
    /\ pendingChecks = [c \in {"database", "xapi"} |-> 0]
    /\ pendingAuth = [c \in AuthCallers |-> 0]
    /\ hungChecks = [c \in {"database", "xapi"} |-> 0]
    /\ pendingReconnects = [c \in Components |-> 0]
    /\ errors = <<>>
    /\ nextId = 1
    /\ xapi = [token |-> Null, tokenExpiry |-> 0]
    /\ now = 0
    /\ relayClients = {}
    /\ clientState = [c \in 1..MaxClients |-> "NONE"]
    /\ received = [c \in 1..MaxClients |-> <<>>]
    /\ arrived = <<>>
    /\ attachedAt = [c \in 1..MaxClients |-> 0]
    /\ listeners = [l \in Listeners |-> NoListener]
    /\ calls = [l \in Listeners |-> <<>>]
    /\ step = NoStep

Alive == phase # "exited"

----------------------------------------------------------------------------
(* RelayService.initialize, up to its call of callControl.connect().  The   *)
(* awaits of db.connect(), cache.connect() and xapi.authenticate() are      *)
(* taken in one step: nothing else is started before they return.           *)

InitializeStart(dbOk, authOk, response) ==
    /\ phase = "new"
    /\ IF dbOk /\ authOk
       THEN /\ phase' = "starting"
            /\ xapi' = Store(response, now)
            /\ leaked' = ConnectLeaked(leaked, ws)
            /\ ws' = ConnectWs("init")
            /\ UNCHANGED trackerVars
            /\ step' = [NoStep EXCEPT !.op = "initialize", !.auth = "stored",
                           !.held = xapi, !.response = response]
       ELSE /\ phase' = "exited"
            /\ errors' = LogError(errors, nextId, "relay", "critical", "Initialization failed")
            /\ nextId' = nextId + 1
            /\ UNCHANGED <<leaked, ws, xapi>>
            /\ step' = [NoStep EXCEPT !.op = "initialize", !.ret = "throw",
                           !.auth = IF dbOk THEN "raised" ELSE "none", !.held = xapi]
    /\ UNCHANGED now
    /\ UNCHANGED <<reconnectAttempts, isConnected, timers, eventHandlers,
                   closeEvents, scheduled, exhausted>>
    /\ UNCHANGED <<monitorVars, relayVars>>

----------------------------------------------------------------------------
(* Events of a socket created by connect() *)

\* 'open' (lines 39-45), and the continuation of whoever awaits connect()
SocketOpen(cur, r) ==
    /\ UNCHANGED tokenVars
    /\ Alive
    /\ Has(cur, r)
    /\ r.st = "CONNECTING"
    /\ LET q == [r EXCEPT !.st = "OPEN", !.waiter = "none"]
       IN  /\ ws' = WsAfter(cur, q)
           /\ leaked' = LeakedAfter(cur, r, q)
           /\ isConnected' = TRUE
           /\ reconnectAttempts' = AttemptsOnOpen(reconnectAttempts)
           /\ closeEvents' = 0
           /\ scheduled' = 0
           /\ exhausted' = 0
           /\ UNCHANGED <<timers, trackerVars, relayVars>>
           /\ CASE r.waiter = "init" ->
                   \* initialize(): subscribe, construct the monitor, startMonitoring()
                   LET u == CheckWebSocket(status, GetReadyState(WsAfter(cur, q)))
                   IN  /\ eventHandlers' = Set(eventHandlers, RelayHandler)
                       /\ status' = u.status
                       /\ pendingChecks' = IssueChecks(pendingChecks)
                       /\ pendingAuth' = EnsureValidToken(pendingAuth, "check", xapi, now)
                       /\ UNCHANGED hungChecks
                       /\ intervalId' = Timer
                       /\ intervals' = intervals + 1
                       /\ phase' = IF phase = "starting" THEN "running" ELSE phase
                       /\ UNCHANGED pendingReconnects
                       /\ step' = [NoStep EXCEPT !.op = "socketOpen", !.origin = r.waiter,
                                      !.settled = "resolved", !.before = [attempts |-> reconnectAttempts,
                                                     exhausted |-> exhausted],
                                      !.update = [component |-> "websocket",
                                                  state |-> u.status["websocket"].state],
                                      !.events = <<Ev("connected")>> \o u.events]
                [] r.waiter = "reconnect" ->
                   \* reconnectWebSocket(): lines 219-220
                   LET u == UpdateStatus(status, "websocket", "connected", "null", "null")
                   IN  /\ status' = u.status
                       /\ pendingReconnects' = [pendingReconnects EXCEPT !["websocket"] = @ - 1]
                       /\ UNCHANGED <<eventHandlers, intervalId, intervals, checkVars, phase>>
                       /\ step' = [NoStep EXCEPT !.op = "socketOpen", !.origin = r.waiter,
                                      !.settled = "resolved", !.before = [attempts |-> reconnectAttempts,
                                                     exhausted |-> exhausted],
                                      !.ret = "true",
                                      !.update = [component |-> "websocket", state |-> "connected"],
                                      !.events = <<Ev("connected")>> \o u.events]
                [] OTHER ->
                       /\ UNCHANGED <<eventHandlers, monitorVars, phase>>
                       /\ step' = [NoStep EXCEPT !.op = "socketOpen", !.origin = r.waiter,
                                      !.settled = "resolved", !.before = [attempts |-> reconnectAttempts,
                                                     exhausted |-> exhausted],
                                      !.events = <<Ev("connected")>>]

\* 'error' (lines 51-55): emit('error') throws when the session has no 'error'
\* listener, which leaves the handler before reject(error): the promise of
\* connect() is never settled, and the process-level 'uncaughtException'
\* handler logs the error.
SocketError(cur, r) ==
    /\ UNCHANGED tokenVars
    /\ Alive
    /\ Has(cur, r)
    /\ r.st \in {"CONNECTING", "OPEN", "ABORTING"}
    /\ Len(errors) < MaxCloses
    /\ LET q == IF HasErrorListener THEN [r EXCEPT !.st = "CLOSING", !.waiter = "none"]
                ELSE [r EXCEPT !.st = "CLOSING"]
       IN  /\ ws' = WsAfter(cur, q)
           /\ leaked' = LeakedAfter(cur, r, q)
           /\ IF ~HasErrorListener
              THEN /\ errors' = LogError(errors, nextId, "system", "critical",
                                         "Uncaught exception")
                   /\ nextId' = nextId + 1
                   /\ UNCHANGED <<monitorVars, phase>>
                   /\ step' = [NoStep EXCEPT !.op = "socketError", !.origin = r.waiter,
                                  !.uncaught = TRUE]
              ELSE CASE r.waiter = "init" ->
                        \* initialize(): lines 595-599, then process.exit(1)
                        /\ errors' = LogError(errors, nextId, "relay", "critical",
                                              "Initialization failed")
                        /\ nextId' = nextId + 1
                        /\ phase' = "exited"
                        /\ UNCHANGED monitorVars
                        /\ step' = [NoStep EXCEPT !.op = "socketError", !.origin = r.waiter,
                                       !.settled = "rejected",
                                       !.ret = "throw", !.events = <<Ev("error")>>]
                     [] r.waiter = "reconnect" ->
                        \* reconnectWebSocket(): lines 221-227
                        LET u == UpdateStatus(status, "websocket", "error", "null", "message")
                        IN  /\ status' = u.status
                            /\ pendingReconnects' =
                                   [pendingReconnects EXCEPT !["websocket"] = @ - 1]
                            /\ errors' = LogError(errors, nextId, "websocket", "error",
                                                  "WebSocket reconnect failed")
                            /\ nextId' = nextId + 1
                            /\ UNCHANGED <<intervalId, intervals, checkVars, phase>>
                            /\ step' = [NoStep EXCEPT !.op = "socketError", !.origin = r.waiter,
                                           !.settled = "rejected",
                                           !.ret = "false",
                                           !.update = [component |-> "websocket", state |-> "error"],
                                           !.events = <<Ev("error")>> \o u.events]
                     [] OTHER ->
                        /\ UNCHANGED <<monitorVars, trackerVars, phase>>
                        /\ step' = [NoStep EXCEPT !.op = "socketError", !.origin = r.waiter,
                                       !.settled = IF r.waiter = "none" THEN "none"
                                                   ELSE "rejected",
                                       !.events = <<Ev("error")>>]
    /\ UNCHANGED <<reconnectAttempts, isConnected, timers, eventHandlers,
                   closeEvents, scheduled, exhausted, relayVars>>

\* 'close' (lines 57-62) and reconnect() (lines 111-129)
SocketClose(cur, r) ==
    /\ UNCHANGED tokenVars
    /\ Alive
    /\ Has(cur, r)
    /\ r.st \in {"OPEN", "CLOSING"}
    /\ closeEvents < MaxCloses
    /\ CeilingReached(reconnectAttempts) \/ timers.fresh + timers.stale < MaxTimers
    /\ LET rc == Reconnect(reconnectAttempts)
       IN  /\ ws' = WsAfter(cur, ClosedSock)
           /\ leaked' = LeakedAfter(cur, r, ClosedSock)
           /\ isConnected' = FALSE
           /\ reconnectAttempts' = rc.attempts
           /\ timers' = IF rc.timer # NoTimer
                        THEN [timers EXCEPT !.fresh = @ + 1] ELSE timers
           /\ closeEvents' = closeEvents + 1
           /\ scheduled' = scheduled + (IF rc.timer # NoTimer THEN 1 ELSE 0)
           /\ exhausted' = exhausted + Len(rc.events)
           /\ step' = [NoStep EXCEPT !.op = "socketClose", !.origin = r.waiter,
                          !.deliberate = r.deliberate,
                          !.events = <<Ev("disconnected")>> \o rc.events, !.timer = rc.timer]
    /\ UNCHANGED <<phase, eventHandlers, monitorVars, trackerVars, relayVars>>

\* the callback of reconnect()'s setTimeout (lines 123-128)
TimerFire(stale) ==
    /\ UNCHANGED tokenVars
    /\ Alive
    /\ IF stale THEN timers.stale > 0 ELSE timers.fresh > 0
    /\ SocketCount < MaxSockets
    /\ timers' = IF stale THEN [timers EXCEPT !.stale = @ - 1]
                          ELSE [timers EXCEPT !.fresh = @ - 1]
    /\ leaked' = ConnectLeaked(leaked, ws)
    /\ ws' = ConnectWs("timer")
    /\ step' = [NoStep EXCEPT !.op = "timerFire", !.origin = "timer", !.stale = stale]
    /\ UNCHANGED <<phase, reconnectAttempts, isConnected, eventHandlers,
                   closeEvents, scheduled, exhausted>>
    /\ UNCHANGED <<monitorVars, trackerVars, relayVars>>

----------------------------------------------------------------------------
(* Operator commands and lifecycle *)

\* ConnectionMonitor.reconnectWebSocket (lines 214-228), up to its await of connect()
ReconnectWebSocket ==
    /\ UNCHANGED tokenVars
    /\ phase = "running"
    /\ SocketCount < MaxSockets
    /\ pendingReconnects["websocket"] < MaxPending
    /\ leaked' = ConnectLeaked(CloseLeaked(leaked, ws), CloseWs(ws))
    /\ ws' = ConnectWs("reconnect")
    /\ isConnected' = CloseConnected(ws, isConnected)
    /\ timers' = MarkStale(timers)
    /\ pendingReconnects' = [pendingReconnects EXCEPT !["websocket"] = @ + 1]
    /\ step' = [NoStep EXCEPT !.op = "reconnectWebSocket"]
    /\ UNCHANGED <<phase, reconnectAttempts, eventHandlers, closeEvents, scheduled,
                   exhausted, status, intervalId, intervals, checkVars>>
    /\ UNCHANGED <<trackerVars, relayVars>>

\* RelayService.shutdown (lines 825-865): stopMonitoring(), callControl.close(),
\* the relay clients are closed; the awaits that follow end in process.exit(0)
Shutdown ==
    /\ UNCHANGED tokenVars
    /\ phase \in {"new", "starting", "running"}
    /\ phase' = "stopping"
    /\ intervals' = StopIntervals(intervalId, intervals)
    /\ intervalId' = Null
    /\ leaked' = CloseLeaked(leaked, ws)
    /\ ws' = CloseWs(ws)
    /\ isConnected' = CloseConnected(ws, isConnected)
    /\ timers' = MarkStale(timers)
    /\ clientState' = [c \in 1..MaxClients |->
                          IF c \in relayClients /\ clientState[c] = "OPEN"
                          THEN "CLOSING" ELSE clientState[c]]
    /\ step' = [NoStep EXCEPT !.op = "shutdown", !.origin = IF ws = NullSock THEN "null" ELSE "socket"]
    /\ UNCHANGED <<reconnectAttempts, eventHandlers, closeEvents, scheduled, exhausted,
                   status, checkVars, pendingReconnects,
                   relayClients, received, arrived, attachedAt, listenerVars>>
    /\ UNCHANGED trackerVars

ProcessExit ==
    /\ UNCHANGED tokenVars
    /\ phase = "stopping"
    /\ phase' = "exited"
    /\ step' = [NoStep EXCEPT !.op = "exit"]
    /\ UNCHANGED <<sessionVars, monitorVars, trackerVars, relayVars>>

----------------------------------------------------------------------------
(* ConnectionMonitor: monitoring cycles *)

\* startMonitoring() (lines 25-35)
StartMonitoring ==
    /\ UNCHANGED tokenVars
    /\ phase = "running"
    /\ intervals < MaxIntervals
    /\ \A c \in DOMAIN pendingChecks : pendingChecks[c] < MaxPending
    /\ LET u == CheckWebSocket(status, GetReadyState(ws))
       IN  /\ status' = u.status
           /\ pendingChecks' = IssueChecks(pendingChecks)
           /\ pendingAuth' = EnsureValidToken(pendingAuth, "check", xapi, now)
           /\ intervalId' = Timer
           /\ intervals' = intervals + 1
           /\ step' = [NoStep EXCEPT !.op = "startMonitoring",
                          !.auth = IF NeedsAuthenticate(xapi, now) THEN "requested"
                                   ELSE "valid",
                          !.held = xapi,
                          !.update = [component |-> "websocket",
                                      state |-> u.status["websocket"].state],
                          !.events = u.events]
    /\ UNCHANGED <<phase, hungChecks, pendingReconnects, sessionVars, trackerVars,
                   relayVars>>

\* stopMonitoring() (lines 40-46)
StopMonitoring ==
    /\ UNCHANGED tokenVars
    /\ phase = "running"
    /\ intervals' = StopIntervals(intervalId, intervals)
    /\ intervalId' = Null
    /\ step' = [NoStep EXCEPT !.op = "stopMonitoring"]
    /\ UNCHANGED <<phase, status, checkVars, pendingReconnects,
                   sessionVars, trackerVars, relayVars>>

\* the callback of startMonitoring()'s setInterval (lines 32-34): checkAllConnections()
IntervalTick ==
    /\ UNCHANGED tokenVars
    /\ Alive
    /\ intervals > 0
    /\ \A c \in DOMAIN pendingChecks : pendingChecks[c] < MaxPending
    /\ LET u == CheckWebSocket(status, GetReadyState(ws))
       IN  /\ status' = u.status
           /\ pendingChecks' = IssueChecks(pendingChecks)
           /\ pendingAuth' = EnsureValidToken(pendingAuth, "check", xapi, now)
           /\ step' = [NoStep EXCEPT !.op = "intervalTick",
                          !.auth = IF NeedsAuthenticate(xapi, now) THEN "requested"
                                   ELSE "valid",
                          !.held = xapi,
                          !.update = [component |-> "websocket",
                                      state |-> u.status["websocket"].state],
                          !.events = u.events]
    /\ UNCHANGED <<phase, intervalId, intervals, hungChecks, pendingReconnects,
                   sessionVars, trackerVars, relayVars>>

\* checkDatabase() (lines 62-80) after db.healthCheck() returned healthy;
\* Database3CX.healthCheck catches every failure of its query and returns false
CheckDatabaseDone(healthy) ==
    /\ UNCHANGED tokenVars
    /\ Alive
    /\ pendingChecks["database"] > 0
    /\ LET u == IF healthy
                THEN UpdateStatus(status, "database", "connected", "ms", "null")
                ELSE UpdateStatus(status, "database", "error", "null", "Health check failed")
       IN  /\ status' = u.status
           /\ step' = [NoStep EXCEPT !.op = "checkDatabase",
                          !.update = [component |-> "database",
                                      state |-> u.status["database"].state],
                          !.events = u.events]
    /\ pendingChecks' = [pendingChecks EXCEPT !["database"] = @ - 1]
    /\ UNCHANGED <<phase, intervalId, intervals, pendingAuth, hungChecks, pendingReconnects,
                   sessionVars, trackerVars, relayVars>>

\* checkXAPI() (lines 85-99) after xapi.ensureValidToken() returned (ok) or
\* raised.  A check whose ensureValidToken() sent no request continues
\* before any answer of the token endpoint is handled, and cannot raise.
CheckXAPIDone(ok, response) ==
    /\ Alive
    /\ pendingChecks["xapi"] > 0
    /\ ok \/ Len(errors) < MaxLog
    /\ LET requested == pendingAuth["check"] >= pendingChecks["xapi"]
           u == IF ok
                THEN UpdateStatus(status, "xapi", "connected", "ms", "null")
                ELSE UpdateStatus(status, "xapi", "error", "null", "message")
       IN  /\ requested \/ ok
           /\ status' = u.status
           /\ xapi' = IF requested /\ ok THEN Store(response, now) ELSE xapi
           /\ pendingAuth' = IF requested THEN [pendingAuth EXCEPT !["check"] = @ - 1]
                             ELSE pendingAuth
           /\ step' = [NoStep EXCEPT !.op = "checkXAPI",
                          !.auth = IF ~requested THEN "valid"
                                   ELSE IF ok THEN "stored" ELSE "raised",
                          !.held = xapi,
                          !.response = IF requested /\ ok THEN response ELSE NoResponse,
                          !.update = [component |-> "xapi", state |-> u.status["xapi"].state],
                          !.events = u.events]
    /\ IF ok
       THEN UNCHANGED trackerVars
       ELSE /\ errors' = LogError(errors, nextId, "xapi", "error", "XAPI health check failed")
            /\ nextId' = nextId + 1
    /\ pendingChecks' = [pendingChecks EXCEPT !["xapi"] = @ - 1]
    /\ UNCHANGED <<phase, intervalId, intervals, hungChecks, pendingReconnects, now,
                   sessionVars, relayVars>>

\* a health check whose upstream never answers: db.healthCheck() for the
\* database, the request of authenticate() for the token source
CheckNeverCompletes(c) ==
    /\ Alive
    /\ c \in {"database", "xapi"}
    /\ pendingChecks[c] > 0
    /\ c = "xapi" => pendingAuth["check"] >= pendingChecks["xapi"]
    /\ hungChecks[c] < MaxHung
    /\ pendingChecks' = [pendingChecks EXCEPT ![c] = @ - 1]
    /\ pendingAuth' = IF c = "xapi" THEN [pendingAuth EXCEPT !["check"] = @ - 1]
                      ELSE pendingAuth
    /\ hungChecks' = [hungChecks EXCEPT ![c] = @ + 1]
    /\ step' = [NoStep EXCEPT !.op = "checkNeverCompletes", !.origin = c]
    /\ UNCHANGED <<phase, status, intervalId, intervals, pendingReconnects,
                   sessionVars, trackerVars, tokenVars, relayVars>>

----------------------------------------------------------------------------
(* ConnectionMonitor: reconnectDatabase and reconnectXAPI *)

ReconnectMessage(c) == IF c = "database" THEN "Database reconnect failed"
                       ELSE IF c = "xapi" THEN "XAPI reconnect failed"
                       ELSE "WebSocket reconnect failed"

\* reconnectDatabase() / reconnectXAPI() (lines 176-209), up to the first await
ReconnectStart(c) ==
    /\ phase = "running"
    /\ c \in {"database", "xapi"}
    /\ pendingReconnects[c] < MaxPending
    /\ pendingReconnects' = [pendingReconnects EXCEPT ![c] = @ + 1]
    /\ xapi' = IF c = "xapi" THEN Discard(xapi) ELSE xapi
    /\ step' = [NoStep EXCEPT !.op = "reconnectStart", !.origin = c,
                   !.auth = IF c = "xapi" THEN "requested" ELSE "none",
                   !.held = xapi]
    /\ UNCHANGED <<phase, status, intervalId, intervals, checkVars, now,
                   sessionVars, trackerVars, relayVars>>

\* the rest of reconnectDatabase() / reconnectXAPI(): the awaited calls
\* returned (ok) or one of them raised
ReconnectDone(c, ok, response) ==
    /\ Alive
    /\ c \in {"database", "xapi"}
    /\ pendingReconnects[c] > 0
    /\ ok \/ Len(errors) < MaxLog
    /\ LET u == IF ok
                THEN UpdateStatus(status, c, "connected", "null", "null")
                ELSE UpdateStatus(status, c, "error", "null", "message")
       IN  /\ status' = u.status
           /\ xapi' = IF c = "xapi" /\ ok THEN Store(response, now) ELSE xapi
           /\ step' = [NoStep EXCEPT !.op = "reconnectDone", !.origin = c,
                          !.ret = IF ok THEN "true" ELSE "false",
                          !.auth = IF c # "xapi" THEN "none"
                                   ELSE IF ok THEN "stored" ELSE "raised",
                          !.held = xapi,
                          !.response = IF c = "xapi" /\ ok THEN response ELSE NoResponse,
                          !.update = [component |-> c, state |-> u.status[c].state],
                          !.events = u.events]
    /\ IF ok
       THEN UNCHANGED trackerVars
       ELSE /\ errors' = LogError(errors, nextId, c, "error", ReconnectMessage(c))
            /\ nextId' = nextId + 1
    /\ pendingReconnects' = [pendingReconnects EXCEPT ![c] = @ - 1]
    /\ UNCHANGED <<phase, intervalId, intervals, checkVars, now, sessionVars, relayVars>>

----------------------------------------------------------------------------
(* XAPIClient as the REST routes use it, and the clock *)

RestMessage(route) == IF route = "active-calls" THEN "Failed to get active calls"
                      ELSE "Failed to get call history"

\* getActiveCalls() / getCallHistory() (lines 936-974) up to the await in
\* ensureValidToken(); with a valid Credential the GET request follows
RestCall(route) ==
    /\ phase = "running"
    /\ pendingAuth[route] < MaxPending
    /\ pendingAuth' = EnsureValidToken(pendingAuth, route, xapi, now)
    /\ step' = [NoStep EXCEPT !.op = "restCall", !.origin = route,
                   !.auth = IF NeedsAuthenticate(xapi, now) THEN "requested" ELSE "valid",
                   !.held = xapi]
    /\ UNCHANGED <<phase, status, intervalId, intervals, pendingChecks, hungChecks,
                   pendingReconnects, sessionVars, trackerVars, tokenVars, relayVars>>

\* the authenticate() a REST route awaits returned (ok: the GET request
\* follows) or raised: the catch of the route (lines 685-688, 697-700)
RestAuthDone(route, ok, response) ==
    /\ Alive
    /\ pendingAuth[route] > 0
    /\ ok \/ Len(errors) < MaxLog
    /\ pendingAuth' = [pendingAuth EXCEPT ![route] = @ - 1]
    /\ xapi' = IF ok THEN Store(response, now) ELSE xapi
    /\ IF ok
       THEN UNCHANGED trackerVars
       ELSE /\ errors' = LogError(errors, nextId, "relay", "error", RestMessage(route))
            /\ nextId' = nextId + 1
    /\ step' = [NoStep EXCEPT !.op = "restAuthDone", !.origin = route,
                   !.ret = IF ok THEN "none" ELSE "500",
                   !.auth = IF ok THEN "stored" ELSE "raised",
                   !.held = xapi,
                   !.response = IF ok THEN response ELSE NoResponse]
    /\ UNCHANGED <<phase, status, intervalId, intervals, pendingChecks, hungChecks,
                   pendingReconnects, now, sessionVars, relayVars>>

----------------------------------------------------------------------------
(* ErrorTracker: the operations as their callers use them.  Ids are taken  *)
(* to be distinct and to grow with the time of insertion.                  *)

LogErrorCall(component, severity, db) ==
    /\ Alive
    /\ errors' = LogError(errors, nextId, component, severity, "message")
    /\ nextId' = nextId + 1
    /\ step' = [NoStep EXCEPT !.op = "logError", !.id = errors'[1].id,
                   !.evicted = Evicted(errors),
                   !.persisted = PersistError(db),
                   !.seen = View(AtEmit(errors, errors')),
                   !.events = <<[type |-> "new_error", error |-> errors'[1]]>>]
    /\ UNCHANGED <<phase, sessionVars, monitorVars, tokenVars, relayVars>>

AcknowledgeErrorCall(id) ==
    /\ Alive
    /\ LET a == AcknowledgeError(errors, id)
       IN  /\ errors' = a.errors
           /\ step' = [NoStep EXCEPT !.op = "acknowledgeError", !.id = id, !.ret = a.ret]
    /\ UNCHANGED <<phase, nextId, sessionVars, monitorVars, tokenVars, relayVars>>

ClearAcknowledgedCall ==
    /\ Alive
    /\ LET c == ClearAcknowledged(errors)
       IN  /\ errors' = c.errors
           /\ step' = [NoStep EXCEPT !.op = "clearAcknowledged", !.count = c.count]
    /\ UNCHANGED <<phase, nextId, sessionVars, monitorVars, tokenVars, relayVars>>

GetErrorsCall(filters) ==
    /\ Alive
    /\ step' = [NoStep EXCEPT !.op = "getErrors", !.filter = filters,
                   !.result = GetErrors(errors, filters)]
    /\ UNCHANGED <<phase, sessionVars, monitorVars, trackerVars, tokenVars, relayVars>>

GetStatisticsCall ==
    /\ Alive
    /\ step' = [NoStep EXCEPT !.op = "getStatistics", !.stats = GetStatistics(errors)]
    /\ UNCHANGED <<phase, sessionVars, monitorVars, trackerVars, tokenVars, relayVars>>

\* time passes
Tick(d) ==
    /\ Alive
    /\ now + d <= MaxMinutes * 60 * 1000
    /\ now' = now + d
    /\ step' = [NoStep EXCEPT !.op = "tick"]
    /\ UNCHANGED <<phase, xapi, sessionVars, monitorVars, trackerVars, relayVars>>

----------------------------------------------------------------------------
(* RelayService: the downstream subscribers and the fan-out *)

Payloads == {"a", "b"}
Malformed == "malformed"
Clients == 1..MaxClients

Wrap(event) == [type |-> "call_event", data |-> event]

\* Variant of the fan-out that stops after the first open subscriber
BroadcastFirstOnly(rcv, message) ==
    LET open == {c \in relayClients : clientState[c] = "OPEN"}
    IN  [c \in Clients |-> IF c \in open /\ \A d \in open : c <= d
                           THEN Append(rcv[c], message) ELSE rcv[c]]

\* Variant of the fan-out that does not test readyState
BroadcastAll(rcv, message) ==
    [c \in Clients |-> IF c \in relayClients THEN Append(rcv[c], message) ELSE rcv[c]]

\* broadcastToRelayClients (lines 792-799): what each transport has been sent
Broadcast(rcv, message) ==
    [c \in Clients |-> IF c \in relayClients /\ clientState[c] = "OPEN"
                       THEN Append(rcv[c], message) ELSE rcv[c]]

\* handleCallEvent (lines 776-787)
HandleCallEvent(rcv, event) == Broadcast(rcv, Wrap(event))

\* Variant of the handler loop without the inner try/catch: a handler that
\* throws ends the loop
RECURSIVE InvokeUntilThrow(_, _, _)
InvokeUntilThrow(hs, d, event) ==
    IF hs = <<>> THEN d
    ELSE LET h == Head(hs)
             e == IF h = RelayHandler
                  THEN [d EXCEPT !.received = HandleCallEvent(@, event)]
                  ELSE [d EXCEPT !.calls[h] = Append(@, event)]
         IN  IF h # RelayHandler /\ listeners[h].throws THEN e
             ELSE InvokeUntilThrow(Tail(hs), e, event)

\* handleMessage, lines 82-88: every handler of the map is invoked with the
\* event, in insertion order; what a handler throws is caught and logged
RECURSIVE InvokeAll(_, _, _)
InvokeAll(hs, d, event) ==
    IF hs = <<>> THEN d
    ELSE LET h == Head(hs)
             e == IF h = RelayHandler
                  THEN [d EXCEPT !.received = HandleCallEvent(@, event)]
                  ELSE [d EXCEPT !.calls[h] = Append(@, event)]
         IN  InvokeAll(Tail(hs), e, event)

\* wss 'connection' (lines 731-752)
ClientConnect(c) ==
    /\ UNCHANGED tokenVars
    /\ phase = "running"
    /\ clientState[c] = "NONE"
    /\ relayClients' = relayClients \cup {c}
    /\ clientState' = [clientState EXCEPT ![c] = "OPEN"]
    /\ received' = [received EXCEPT ![c] = <<[type |-> "connected", data |-> "null"]>>]
    /\ attachedAt' = [attachedAt EXCEPT ![c] = Len(arrived)]
    /\ step' = [NoStep EXCEPT !.op = "clientConnect"]
    /\ UNCHANGED <<phase, arrived, listenerVars, sessionVars, monitorVars, trackerVars>>

\* the transport of a subscriber starts closing: its readyState is no longer OPEN
ClientClosing(c) ==
    /\ UNCHANGED tokenVars
    /\ Alive
    /\ clientState[c] = "OPEN"
    /\ clientState' = [clientState EXCEPT ![c] = "CLOSING"]
    /\ step' = [NoStep EXCEPT !.op = "clientClosing"]
    /\ UNCHANGED <<phase, relayClients, received, arrived, attachedAt, listenerVars,
                   sessionVars, monitorVars, trackerVars>>

\* 'close' of a subscriber's transport (lines 736-740)
ClientCloseEvent(c) ==
    /\ UNCHANGED tokenVars
    /\ Alive
    /\ clientState[c] \in {"OPEN", "CLOSING"}
    /\ relayClients' = relayClients \ {c}
    /\ clientState' = [clientState EXCEPT ![c] = "NONE"]
    /\ received' = [received EXCEPT ![c] = <<>>]
    /\ attachedAt' = [attachedAt EXCEPT ![c] = 0]
    /\ step' = [NoStep EXCEPT !.op = "clientClose"]
    /\ UNCHANGED <<phase, arrived, listenerVars, sessionVars, monitorVars, trackerVars>>

\* 'message' of a socket (lines 47-49) and handleMessage (lines 78-94):
\* data is the text of a JSON value (a payload) or text that does not parse
SocketMessage(cur, r, data) ==
    /\ UNCHANGED tokenVars
    /\ Alive
    /\ Has(cur, r)
    /\ r.st = "OPEN"
    /\ Len(arrived) < MaxMsgs
    /\ IF data = Malformed
       THEN /\ UNCHANGED <<received, arrived, calls>>
            /\ step' = [NoStep EXCEPT !.op = "message", !.ret = "dropped"]
       ELSE LET d == InvokeAll(eventHandlers, [received |-> received, calls |-> calls], data)
            IN  /\ received' = d.received
                /\ calls' = d.calls
                /\ arrived' = Append(arrived, data)
                /\ step' = [NoStep EXCEPT !.op = "message",
                               !.events = <<Ev("call_event")>>]
    /\ UNCHANGED <<phase, relayClients, clientState, attachedAt, listeners,
                   sessionVars, monitorVars, trackerVars>>

\* subscribe(handler) (lines 101-106) by a caller other than the relay
Subscribe(l, throws) ==
    /\ UNCHANGED tokenVars
    /\ Alive
    /\ listeners[l].reg = "none"
    /\ eventHandlers' = Set(eventHandlers, l)
    /\ listeners' = [listeners EXCEPT ![l] = [reg |-> "on", throws |-> throws,
                                              from |-> Len(arrived), to |-> 0]]
    /\ step' = [NoStep EXCEPT !.op = "subscribe", !.origin = l]
    /\ UNCHANGED <<phase, ws, leaked, reconnectAttempts, isConnected, timers,
                   closeEvents, scheduled, exhausted, calls,
                   relayClients, clientState, received, arrived, attachedAt,
                   monitorVars, trackerVars>>

\* the unsubscribe handle subscribe() returned (line 105), called once more
Unsubscribe(l) ==
    /\ UNCHANGED tokenVars
    /\ Alive
    /\ listeners[l].reg # "none"
    /\ eventHandlers' = Delete(eventHandlers, l)
    /\ listeners' = IF listeners[l].reg = "on"
                    THEN [listeners EXCEPT ![l].reg = "off", ![l].to = Len(arrived)]
                    ELSE listeners
    /\ step' = [NoStep EXCEPT !.op = "unsubscribe", !.origin = l,
                   !.ret = IF In(eventHandlers, l) THEN "true" ELSE "false"]
    /\ UNCHANGED <<phase, ws, leaked, reconnectAttempts, isConnected, timers,
                   closeEvents, scheduled, exhausted, calls,
                   relayClients, clientState, received, arrived, attachedAt,
                   monitorVars, trackerVars>>

----------------------------------------------------------------------------
Next ==
    \/ \E dbOk, authOk \in BOOLEAN : InitializeStart(dbOk, authOk, FirstResponse)
    \/ \E cur \in BOOLEAN, r \in SockKinds : SocketOpen(cur, r)
    \/ \E cur \in BOOLEAN, r \in SockKinds : SocketError(cur, r)
    \/ \E cur \in BOOLEAN, r \in SockKinds : SocketClose(cur, r)
    \/ \E stale \in BOOLEAN : TimerFire(stale)
    \/ ReconnectWebSocket
    \/ Shutdown
    \/ ProcessExit

Spec == Init /\ [][Next]_vars

\* The health monitor as initialize() starts it, with a stream that
\* reconnects by itself
NextMonitor ==
    \/ \E dbOk, authOk \in BOOLEAN : InitializeStart(dbOk, authOk, FirstResponse)
    \/ \E cur \in BOOLEAN, r \in SockKinds : SocketOpen(cur, r)
    \/ \E cur \in BOOLEAN, r \in SockKinds : SocketClose(cur, r)
    \/ \E stale \in BOOLEAN : TimerFire(stale)
    \/ IntervalTick
    \/ \E healthy \in BOOLEAN : CheckDatabaseDone(healthy)
    \/ \E ok \in BOOLEAN : CheckXAPIDone(ok, FirstResponse)
    \/ \E c \in Components : ReconnectStart(c)
    \/ \E c \in Components, ok \in BOOLEAN : ReconnectDone(c, ok, FirstResponse)

SpecMonitor == Init /\ [][NextMonitor]_vars

\* The health monitor under any sequence of startMonitoring() and
\* stopMonitoring() calls
NextLifecycle ==
    \/ NextMonitor
    \/ StartMonitoring
    \/ StopMonitoring

SpecLifecycle == Init /\ [][NextLifecycle]_vars

\* Checks that overlap a reconnect operation: no cycle is issued while a
\* reconnect operation runs, so a check that is pending when the operation
\* ends was issued before the operation started
NextOverlap ==
    \/ \E dbOk, authOk \in BOOLEAN : InitializeStart(dbOk, authOk, FirstResponse)
    \/ \E cur \in BOOLEAN, r \in SockKinds : SocketOpen(cur, r)
    \/ /\ \A c \in Components : pendingReconnects[c] = 0
       /\ IntervalTick
    \/ \E healthy \in BOOLEAN : CheckDatabaseDone(healthy)
    \/ \E ok \in BOOLEAN : CheckXAPIDone(ok, FirstResponse)
    \/ \E c \in Components : ReconnectStart(c)
    \/ \E c \in Components, ok \in BOOLEAN : ReconnectDone(c, ok, FirstResponse)

SpecOverlap == Init /\ [][NextOverlap]_vars

\* Monitoring cycles over a token source that fails again and again, while
\* the operator acknowledges and clears what has been logged
NextFailing ==
    \/ \E dbOk, authOk \in BOOLEAN : InitializeStart(dbOk, authOk, FirstResponse)
    \/ \E cur \in BOOLEAN, r \in SockKinds : SocketOpen(cur, r)
    \/ IntervalTick
    \/ CheckDatabaseDone(TRUE)
    \/ /\ nextId <= MaxEntries
       /\ \E ok \in BOOLEAN : CheckXAPIDone(ok, FirstResponse)
    \/ /\ phase = "running"
       /\ \E id \in 1..MaxEntries : AcknowledgeErrorCall(id)
    \/ /\ phase = "running"
       /\ ClearAcknowledgedCall

SpecFailing == Init /\ [][NextFailing]_vars

\* The monitoring cycles of a session left to itself, up to the shutdown:
\* the database and the token source stay healthy
NextStream ==
    \/ \E dbOk, authOk \in BOOLEAN : InitializeStart(dbOk, authOk, FirstResponse)
    \/ \E cur \in BOOLEAN, r \in SockKinds : SocketOpen(cur, r)
    \/ \E cur \in BOOLEAN, r \in SockKinds : SocketError(cur, r)
    \/ \E cur \in BOOLEAN, r \in SockKinds : SocketClose(cur, r)
    \/ \E stale \in BOOLEAN : TimerFire(stale)
    \/ StartMonitoring
    \/ IntervalTick
    \/ CheckDatabaseDone(TRUE)
    \/ CheckXAPIDone(TRUE, FirstResponse)
    \/ Shutdown

SpecStream == Init /\ [][NextStream]_vars

\* The relay, with a stream that reconnects by itself
NextRelay ==
    \/ \E dbOk, authOk \in BOOLEAN : InitializeStart(dbOk, authOk, FirstResponse)
    \/ \E cur \in BOOLEAN, r \in SockKinds : SocketOpen(cur, r)
    \/ \E cur \in BOOLEAN, r \in SockKinds : SocketClose(cur, r)
    \/ \E stale \in BOOLEAN : TimerFire(stale)
    \/ \E cur \in BOOLEAN, r \in SockKinds, data \in Payloads \cup {Malformed} :
          SocketMessage(cur, r, data)
    \/ \E c \in Clients : ClientConnect(c)
    \/ \E c \in Clients : ClientClosing(c)
    \/ \E c \in Clients : ClientCloseEvent(c)
    \/ Shutdown
    \/ ProcessExit

SpecRelay == Init /\ [][NextRelay]_vars

\* The stream session with callers of subscribe() besides the relay
NextListeners ==
    \/ \E dbOk, authOk \in BOOLEAN : InitializeStart(dbOk, authOk, FirstResponse)
    \/ \E cur \in BOOLEAN, r \in SockKinds : SocketOpen(cur, r)
    \/ \E cur \in BOOLEAN, r \in SockKinds, data \in Payloads \cup {Malformed} :
          SocketMessage(cur, r, data)
    \/ \E l \in Listeners, throws \in BOOLEAN : Subscribe(l, throws)
    \/ \E l \in Listeners : Unsubscribe(l)

SpecListeners == Init /\ [][NextListeners]_vars

\* The stream session left to itself: no operator command, no shutdown
NextLive ==
    \/ \E dbOk, authOk \in BOOLEAN : InitializeStart(dbOk, authOk, FirstResponse)
    \/ \E cur \in BOOLEAN, r \in SockKinds : SocketOpen(cur, r)
    \/ \E cur \in BOOLEAN, r \in SockKinds : SocketError(cur, r)
    \/ \E cur \in BOOLEAN, r \in SockKinds : SocketClose(cur, r)
    \/ \E stale \in BOOLEAN : TimerFire(stale)

\* every handshake ends: the socket reports 'open' or 'error'
HandshakeEnds ==
    \E cur \in BOOLEAN, r \in SockKinds : SocketOpen(cur, r) \/ SocketError(cur, r)

\* the 'close' event of a socket that was open or whose 'error' handler
\* returned; after an 'error' handler that threw during the handshake the
\* 'close' event is not certain to follow
CloseDue ==
    \E cur \in BOOLEAN, r \in SockKinds :
        r.st = "CLOSING" /\ r.waiter = "none" /\ SocketClose(cur, r)

\* the upstream accepts connections again: a handshake that is tried again
\* and again succeeds at some point
UpstreamAccepts == \E cur \in BOOLEAN, r \in SockKinds : SocketOpen(cur, r)

\* timers fire, handshakes end, due 'close' events are delivered
SpecLive ==
    /\ Init /\ [][NextLive]_vars
    /\ WF_vars(\E stale \in BOOLEAN : TimerFire(stale))
    /\ WF_vars(HandshakeEnds)
    /\ WF_vars(CloseDue)
    /\ SF_vars(UpstreamAccepts)

\* The monitoring cycles with upstreams that may never answer a check
NextCycles ==
    \/ \E dbOk, authOk \in BOOLEAN : InitializeStart(dbOk, authOk, FirstResponse)
    \/ \E cur \in BOOLEAN, r \in SockKinds : SocketOpen(cur, r)
    \/ IntervalTick
    \/ \E healthy \in BOOLEAN : CheckDatabaseDone(healthy)
    \/ \E ok \in BOOLEAN : CheckXAPIDone(ok, FirstResponse)
    \/ \E c \in {"database", "xapi"} : CheckNeverCompletes(c)

SpecCycles == Init /\ [][NextCycles]_vars

\* The token source with its four callers, as time passes: startup, the
\* health check startMonitoring() issues, the operator's reconnect and a
\* REST route
Advances == {120000, 150000}
Routes == {"call-history"}

NextToken ==
    \/ \E dbOk, authOk \in BOOLEAN, response \in Responses :
          InitializeStart(dbOk, authOk, response)
    \/ \E cur \in BOOLEAN, r \in SockKinds : SocketOpen(cur, r)
    \/ \E ok \in BOOLEAN, response \in Responses : CheckXAPIDone(ok, response)
    \/ ReconnectStart("xapi")
    \/ \E ok \in BOOLEAN, response \in Responses : ReconnectDone("xapi", ok, response)
    \/ \E route \in Routes : RestCall(route)
    \/ \E route \in Routes, ok \in BOOLEAN, response \in Responses :
          RestAuthDone(route, ok, response)
    \/ \E d \in Advances : Tick(d)

SpecToken == Init /\ [][NextToken]_vars

\* The ErrorTracker under any sequence of calls of its operations
TrackedComponents == {"database", "xapi"}
TrackedSeverities == {"error", "critical"}
Optional(S) == {<<>>} \cup {<<x>> : x \in S}
Filters == [component : Optional(TrackedComponents), severity : Optional(TrackedSeverities),
            acknowledged : Optional(BOOLEAN), limit : Optional(0..MaxEntries)]

NextTracker ==
    \/ /\ nextId <= MaxEntries
       /\ \E c \in TrackedComponents, s \in TrackedSeverities, db \in Persistence :
             LogErrorCall(c, s, db)
    \/ \E id \in 1..(MaxEntries + 1) : AcknowledgeErrorCall(id)
    \/ ClearAcknowledgedCall
    \/ \E filters \in Filters : GetErrorsCall(filters)
    \/ GetStatisticsCall

SpecTracker == Init /\ [][NextTracker]_vars

\* The ErrorTracker of a process that logs maxBufferSize events, and then
\* any sequence of logError, acknowledgeError and clearAcknowledged calls
BufferIds == {1, 2, maxBufferSize, maxBufferSize + 1}

NextBuffer ==
    \/ /\ nextId <= maxBufferSize + MaxEntries
       /\ \E db \in Persistence : LogErrorCall("relay", "error", db)
    \/ /\ nextId > maxBufferSize
       /\ \E id \in BufferIds : AcknowledgeErrorCall(id)
    \/ /\ nextId > maxBufferSize
       /\ ClearAcknowledgedCall

SpecBuffer == Init /\ [][NextBuffer]_vars

----------------------------------------------------------------------------
(* Properties *)

IsStateChange(e) == e.type = "state_change"
StateChanges(events) == SelectSeq(events, IsStateChange)
Pending(tm) == tm.fresh + tm.stale

\* 5000 * 1.5^(n-1) ms in units of 1/Scale ms, by the recurrence
\* d(1) = 5000, d(n) = d(n-1) * 3/2
RECURSIVE BackoffMs(_)
BackoffMs(n) == IF n = 1 THEN 5000 * Scale ELSE (BackoffMs(n - 1) * 3) \div 2

\* the sockets whose connect() promise reconnectWebSocket() awaits and that
\* can still emit the 'open' or 'error' event that settles it
Awaited(r) == r.waiter = "reconnect" /\ r.st \in {"CONNECTING", "ABORTING"}
AwaitedCount == SumOver(leaked, {k \in SockKinds : Awaited(k)})
                + (IF ws \in SockKinds /\ Awaited(ws) THEN 1 ELSE 0)

\* C1: a relay subscriber that has been attached and open since it attached
\* has been sent, after its greeting, every message handleMessage parsed since
\* then, exactly once, wrapped as a call_event, in the order of arrival.
C1_EachMessageOnceInOrder ==
    \A c \in relayClients :
        clientState[c] = "OPEN" =>
            /\ Len(received[c]) = 1 + Len(arrived) - attachedAt[c]
            /\ received[c][1] = [type |-> "connected", data |-> "null"]
            /\ \A i \in 1..(Len(arrived) - attachedAt[c]) :
                  received[c][1 + i] =
                      [type |-> "call_event", data |-> arrived[attachedAt[c] + i]]

\* Two distinct messages have arrived; one open subscriber was attached before
\* both and another one between them.
C1_TwoSubscribersTwoMessages ==
    /\ Len(arrived) = 2
    /\ arrived[1] # arrived[2]
    /\ \E c, d \in relayClients :
          /\ clientState[c] = "OPEN" /\ attachedAt[c] = 0
          /\ clientState[d] = "OPEN" /\ attachedAt[d] = 1

\* C2: at most one upstream socket that is connecting or open exists with its
\* message handler attached, and no socket this.ws was moved away from is
\* still connecting or open.
C2_AtMostOneLiveSocket ==
    /\ LiveCount <= 1
    /\ \A k \in SockKinds : Live(k) => leaked[k] = 0

\* C3: the 'close' event of a socket that close() closed neither increments
\* the attempt counter nor schedules a reconnect timer.
C3_DeliberateCloseNoReconnect ==
    [][(step'.op = "socketClose" /\ step'.deliberate)
          => (reconnectAttempts' = reconnectAttempts /\ timers' = timers)]_vars

C6_CloseCancelsTimer ==
    [][/\ step'.op = "timerFire" => ~step'.stale
       /\ (step'.op = "shutdown" /\ ws = NullSock) =>
             (ws' = ws /\ leaked' = leaked /\ isConnected' = isConnected
              /\ reconnectAttempts' = reconnectAttempts)]_vars

\* C7: once stopMonitoring() has run, no interval timer that issues check
\* cycles is left active.
C7_StopEndsCycles == intervalId = Null => intervals = 0

\* C8: an updateStatus call emits one state_change {component, previousState,
\* newState} if the new state differs from the component's previous state and
\* nothing if it is the same; a handler without such a call emits none.
C8_StateChangeIffChanged ==
    [][IF step'.update # NoUpdate
       THEN LET c == step'.update.component
                new == step'.update.state
                notes == StateChanges(step'.events)
            IN  /\ status'[c].state = new
                /\ IF status[c].state # new
                   THEN /\ Len(notes) = 1
                        /\ notes[1].component = c
                        /\ notes[1].previousState = status[c].state
                        /\ notes[1].newState = new
                   ELSE notes = <<>>
       ELSE StateChanges(step'.events) = <<>>]_vars

\* A database check failed while the component was already in state error:
\* the update emitted nothing.
C8_RepeatedFailureSilent ==
    /\ step.op = "checkDatabase"
    /\ step.update = [component |-> "database", state |-> "error"]
    /\ status["database"].error = "Health check failed"
    /\ step.events = <<>>

\* C9: the handler of a socket 'error' event during an automatic or an
\* operator-triggered reconnect raises no uncaught exception.
C9_NoUncaughtException ==
    ~(step.op = "socketError" /\ step.uncaught /\ step.origin \in {"timer", "reconnect"})

\* C10: a reconnectWebSocket() call that has not returned awaits a socket that
\* can still settle it; a reconnect operation that returned true left its
\* component connected, one that returned false left it in state error with a
\* DiagnosticEvent of severity error naming the operation as the newest entry.
C10_ReconnectReturnsBoolean ==
    /\ pendingReconnects["websocket"] <= AwaitedCount
    /\ step.ret = "true" => status[step.update.component].state = "connected"
    /\ step.ret = "false" =>
          /\ status[step.update.component].state = "error"
          /\ Len(errors) > 0
          /\ errors[1].component = step.update.component
          /\ errors[1].severity = "error"
          /\ errors[1].message = ReconnectMessage(step.update.component)

C12_ConnectIdempotent ==
    [][(step'.op = "timerFire" /\ Live(ws)) => (ws' = ws /\ leaked' = leaked)]_vars

\* C13: the 'error' event of a socket whose connect() promise is pending
\* rejects that promise, its 'open' event resolves it, and nothing else does.
C13_ConnectPromiseSettled ==
    /\ (step.op = "socketError" /\ step.origin \in Callers) => step.settled = "rejected"
    /\ (step.op = "socketOpen" /\ step.origin \in Callers) => step.settled = "resolved"
    /\ step.settled = "resolved" => step.op = "socketOpen"

\* C14: a failure of db.connect(), authenticate() or the first connect()
\* during initialize() makes initialize() throw after it logged a critical
\* DiagnosticEvent of the relay, with no monitoring started.
C14_InitializeFailurePropagates ==
    ((step.op = "initialize" /\ phase # "starting")
        \/ (step.op = "socketError" /\ step.origin = "init")) =>
       /\ step.ret = "throw"
       /\ Len(errors) > 0
       /\ errors[1].component = "relay"
       /\ errors[1].severity = "critical"
       /\ errors[1].message = "Initialization failed"
       /\ intervalId = Null
       /\ intervals = 0

\* C15: after every 'open' event the attempt counter is zero, and the first
\* close event after it schedules attempt 1 with the base delay.
C15_OpenResetsCounter ==
    [][/\ step'.op = "socketOpen" => reconnectAttempts' = 0
       /\ (step'.op = "socketClose" /\ step.op = "socketOpen") =>
             /\ reconnectAttempts' = 1
             /\ step'.timer = [n |-> 1, delay |-> 5000 * Scale]]_vars

\* A socket created by the reconnect timer opened after at least three
\* failures in a row.
C15_ReopenedAfterFailures ==
    /\ step.op = "socketOpen"
    /\ step.origin = "timer"
    /\ step.before.attempts >= 3
    /\ reconnectAttempts = 0

\* C16: after the close event of an open socket that the remote end or the
\* network closed, the session left to itself is eventually open again with its
\* attempt counter at zero, unless the ceiling of 10 attempts is reached first.
C16_EventuallyReopens ==
    (step.op = "socketClose" /\ step.origin = "none" /\ ~step.deliberate
        /\ phase = "running" /\ exhausted = 0)
        ~> ((isConnected /\ reconnectAttempts = 0) \/ exhausted > 0)

Occurrences(hs, h) == Cardinality({i \in DOMAIN hs : hs[i] = h})

\* C17: a listener in the handler map has been invoked exactly once with each
\* message parsed since it subscribed, in order; one whose unsubscribe handle
\* was called has been invoked with none that arrived after that call; and
\* calling the handle again changes nothing.
C17_ListenerOncePerMessage ==
    /\ [](\A l \in Listeners :
            /\ listeners[l].reg = "none" => calls[l] = <<>>
            /\ listeners[l].reg = "on" =>
                  /\ Occurrences(eventHandlers, l) = 1
                  /\ calls[l] = SubSeq(arrived, listeners[l].from + 1, Len(arrived))
            /\ listeners[l].reg = "off" =>
                  /\ Occurrences(eventHandlers, l) = 0
                  /\ calls[l] = SubSeq(arrived, listeners[l].from + 1, listeners[l].to))
    /\ [][\A l \in Listeners :
            (step'.op = "unsubscribe" /\ step'.origin = l /\ listeners[l].reg = "off")
                => (eventHandlers' = eventHandlers /\ calls' = calls)]_vars

\* Two messages have arrived; one listener was subscribed for both, another
\* one unsubscribed after the first, and its handle has just been called again.
C17_UnsubscribedBetweenMessages ==
    /\ Len(arrived) = 2
    /\ step.op = "unsubscribe"
    /\ step.ret = "false"
    /\ \E l, m \in Listeners :
          /\ listeners[l] = [reg |-> "off", throws |-> FALSE, from |-> 0, to |-> 1]
          /\ step.origin = l
          /\ listeners[m].reg = "on" /\ listeners[m].from = 0
          /\ Len(calls[l]) = 1 /\ Len(calls[m]) = 2

\* C18: a message that does not parse invokes no listener and leaves the
\* connection state of the session as it is; a parsed message reaches every
\* listener in the map even when listeners invoked before it throw, and
\* nothing is thrown out of the message handler.
C18_MalformedDroppedThrowContained ==
    [][/\ (step'.op = "message" /\ step'.ret = "dropped") =>
             /\ calls' = calls /\ received' = received /\ arrived' = arrived
             /\ eventHandlers' = eventHandlers
             /\ ws' = ws /\ leaked' = leaked /\ isConnected' = isConnected
             /\ reconnectAttempts' = reconnectAttempts /\ timers' = timers
             /\ ~step'.uncaught
       /\ (step'.op = "message" /\ step'.ret # "dropped") =>
             /\ ~step'.uncaught
             /\ \A i \in DOMAIN eventHandlers :
                   eventHandlers[i] \in Listeners =>
                       calls'[eventHandlers[i]] =
                           Append(calls[eventHandlers[i]], arrived'[Len(arrived')])]_vars

\* A listener that throws is in the map before one that does not, and the
\* latter has been invoked with both messages that arrived.
C18_LaterListenerServed ==
    /\ step.op = "message"
    /\ Len(arrived) = 2
    /\ \E i, j \in DOMAIN eventHandlers :
          /\ i < j
          /\ eventHandlers[i] \in Listeners /\ listeners[eventHandlers[i]].throws
          /\ eventHandlers[j] \in Listeners /\ ~listeners[eventHandlers[j]].throws
          /\ calls[eventHandlers[j]] = arrived

\* C19: a fanned-out event is sent, as a call_event message with the event as
\* its data, to exactly the subscribers of the live set whose transport is
\* OPEN; the others are skipped and stay in the set; a subscriber whose
\* transport reported closure is not in the set and is sent nothing.
C19_FanOutToOpenOnly ==
    /\ [](\A c \in Clients : clientState[c] = "NONE" => c \notin relayClients)
    /\ [][(step'.op = "message" /\ step'.ret # "dropped") =>
             /\ \A c \in Clients :
                   received'[c] =
                       IF c \in relayClients /\ clientState[c] = "OPEN"
                       THEN Append(received[c],
                                   [type |-> "call_event", data |-> arrived'[Len(arrived')]])
                       ELSE received[c]
             /\ relayClients' = relayClients
             /\ clientState' = clientState
             /\ ~step'.uncaught]_vars

\* Two subscribers attached before the first message; the transport of one
\* started closing after it, and the second message was sent to the other only.
C19_ClosingSubscriberSkipped ==
    /\ step.op = "message"
    /\ Len(arrived) = 2
    /\ \E c, d \in relayClients :
          /\ clientState[c] = "CLOSING" /\ attachedAt[c] = 0 /\ Len(received[c]) = 2
          /\ clientState[d] = "OPEN" /\ attachedAt[d] = 0 /\ Len(received[d]) = 3

\* C20: a monitoring cycle starts the database, the token and the stream
\* check together; the result of a check changes the recorded status of its
\* own component only; and no check or cycle raises.
C20_CheckIsolation ==
    [][/\ (step'.op = "intervalTick" \/ (step'.op = "socketOpen" /\ step'.origin = "init")) =>
             /\ pendingChecks'["database"] = pendingChecks["database"] + 1
             /\ pendingChecks'["xapi"] = pendingChecks["xapi"] + 1
             /\ step'.update.component = "websocket"
       /\ \A c \in Components :
             step'.update.component = c =>
                 \A d \in Components \ {c} : status'[d] = status[d]
       /\ step'.update = NoUpdate => status' = status
       /\ step'.op \in {"intervalTick", "checkDatabase", "checkXAPI"} =>
             (~step'.uncaught /\ step'.ret # "throw")]_vars

\* The token check of a cycle failed while the database and the stream were
\* and stay recorded as connected.
C20_TokenCheckFailedAlone ==
    /\ step.op = "checkXAPI"
    /\ status["xapi"].state = "error"
    /\ status["database"].state = "connected"
    /\ status["websocket"].state = "connected"
    /\ Len(errors) > 0 /\ errors[1].message = "XAPI health check failed"

\* C21: a monitoring cycle is issued by the interval timer, whatever became
\* of the checks of the cycles before: with a database or token check that
\* never completes, the timer stays armed, the next cycle issues the
\* database and the token check again and runs the stream check, and a check
\* that completes records its result for its component.
C21_CyclesIssuedRegardless ==
    [][/\ step'.op = "intervalTick" =>
             /\ pendingChecks'["database"] = pendingChecks["database"] + 1
             /\ pendingChecks'["xapi"] = pendingChecks["xapi"] + 1
             /\ step'.update.component = "websocket"
             /\ status'["websocket"].state = step'.update.state
             /\ hungChecks' = hungChecks
       /\ step'.op \in {"intervalTick", "checkDatabase", "checkXAPI", "checkNeverCompletes"} =>
             /\ intervals' = intervals
             /\ intervalId' = intervalId
       /\ step'.op = "checkXAPI" =>
             /\ status'["xapi"].state \in {"connected", "error"}
             /\ step'.update = [component |-> "xapi", state |-> status'["xapi"].state]
             /\ pendingChecks'["xapi"] = pendingChecks["xapi"] - 1
       /\ step'.op = "checkDatabase" =>
             /\ status'["database"].state \in {"connected", "error"}
             /\ step'.update = [component |-> "database", state |-> status'["database"].state]
             /\ pendingChecks'["database"] = pendingChecks["database"] - 1]_vars

\* A database check never completed; a later cycle issued the database check
\* again, and its token check completed and recorded the token source as
\* connected.
C21_TokenCheckedAfterHungDatabase ==
    /\ hungChecks["database"] = 1
    /\ pendingChecks["database"] = 1
    /\ step.op = "checkXAPI"
    /\ status["xapi"].state = "connected"
    /\ intervals > 0

CallsEnsureValid(st, caller) ==
    \/ st.op = "restCall" /\ st.origin = caller
    \/ /\ caller = "check"
       /\ \/ st.op \in {"intervalTick", "startMonitoring"}
          \/ st.op = "socketOpen" /\ st.origin = "init"

\* C23: the operator's reconnect of the token source sets the token to
\* absent and sends an authenticate() request whether or not the Credential
\* was still valid; when it returns true the Credential of the answer is
\* stored, when it returns false it stores nothing.
C23_ReconnectDiscardsAndAuthenticates ==
    [][/\ (step'.op = "reconnectStart" /\ step'.origin = "xapi") =>
             /\ xapi'.token = Null
             /\ pendingReconnects'["xapi"] = pendingReconnects["xapi"] + 1
       /\ (step'.op = "reconnectDone" /\ step'.origin = "xapi" /\ step'.ret = "true") =>
             /\ xapi'.token = step'.response.access_token
             /\ xapi'.token # Null
             /\ xapi'.tokenExpiry = now + step'.response.expires_in * 1000
       /\ (step'.op = "reconnectDone" /\ step'.origin = "xapi" /\ step'.ret = "false") =>
             xapi' = xapi]_vars

\* The operator reconnected the token source while the Credential had more
\* than the safety margin left: it was discarded.
C23_ValidCredentialDiscarded ==
    /\ step.op = "reconnectStart" /\ step.origin = "xapi"
    /\ step.held.token # Null
    /\ step.held.tokenExpiry - now > 60000
    /\ xapi.token = Null
    /\ pendingReconnects["xapi"] = 1

\* C24: an authenticate() that fails raises to its caller and leaves token
\* and expiry as they were; one that succeeds replaces both from its answer,
\* with expiry = now + the issued lifetime; the expiry changes in no other way.
C24_AuthenticateAtomic ==
    [][/\ step'.auth = "raised" =>
             /\ xapi' = xapi
             /\ \/ step'.ret \in {"throw", "false", "500"}
                \/ step'.update = [component |-> "xapi", state |-> "error"]
       /\ step'.auth = "stored" =>
             xapi' = [token |-> step'.response.access_token,
                      tokenExpiry |-> now + step'.response.expires_in * 1000]
       /\ xapi'.tokenExpiry # xapi.tokenExpiry => step'.auth = "stored"]_vars

\* An authenticate() a REST route awaited failed, some time after startup,
\* while a Credential was held: the Credential is as it was.
C24_FailureKeepsCredential ==
    /\ step.op = "restAuthDone" /\ step.auth = "raised"
    /\ step.held.token # Null
    /\ now > 0
    /\ xapi = step.held

C26_FailedAuthenticateSeverity ==
    step.auth = "raised" =>
        /\ Len(errors) > 0
        /\ errors[1].id = nextId - 1
        /\ \/ errors[1].severity = "error"
           \/ errors[1].severity = "critical" /\ step.op = "reconnectDone"

\* the ids of the entries of a buffer; ids grow with the time of insertion
Ids(errs) == {errs[i].id : i \in DOMAIN errs}
Oldest(errs) == CHOOSE x \in Ids(errs) : \A y \in Ids(errs) : x <= y

\* C27: the buffer never holds more than 1000 entries, and a logError on a
\* buffer that holds 1000 entries drops exactly the entry inserted earliest
\* among those present and keeps all the others.
C27_BufferBounded ==
    /\ [](Len(errors) <= 1000)
    /\ [][(step'.op = "logError" /\ Len(errors) = 1000) =>
              /\ Len(errors') = 1000
              /\ Ids(errors') = (Ids(errors) \ {Oldest(errors)}) \cup {step'.id}
              /\ step'.evicted = Oldest(errors)]_vars

\* After the second entry had been acknowledged and cleared, the buffer was
\* filled up again and the next logError evicted the first entry ever logged.
C27_OldestEvictedAfterClear ==
    /\ step.op = "logError"
    /\ step.evicted = 1
    /\ Len(errors) = 1000
    /\ 2 \notin Ids(errors)
    /\ errors[1].id = 1002

\* C28: the buffer is ordered newest first by insertion; logError puts the
\* new entry at index 0 in front of the entries that were there, in their
\* order; acknowledgeError and clearAcknowledged insert nothing, so that the
\* entries that remain keep their order.
C28_NewestFirst ==
    /\ [](\A i \in 1..(Len(errors) - 1) : errors[i].id > errors[i + 1].id)
    /\ [][/\ step'.op = "logError" =>
                /\ errors'[1].id = step'.id
                /\ step'.id = nextId
                /\ \A i \in 2..Len(errors') : errors'[i].id = errors[i - 1].id
          /\ step'.op \in {"acknowledgeError", "clearAcknowledged"} =>
                /\ Ids(errors') \subseteq Ids(errors)
                /\ Len(errors') = Cardinality(Ids(errors'))]_vars

\* After an eviction, an acknowledged entry in the middle of a full buffer
\* was cleared: the newest entry is still at the head, the oldest at the end.
C28_OrderKeptAcrossClear ==
    /\ step.op = "clearAcknowledged"
    /\ step.count = 1
    /\ Len(errors) = 999
    /\ errors[1].id = 1001
    /\ errors[Len(errors)].id = 2
    /\ 1000 \notin Ids(errors)

\* C29: acknowledgeError(id) returns true exactly when the buffer holds an
\* entry with this id that has not been acknowledged yet, and false
\* otherwise; a false result leaves the buffer as it was.
C29_TrueOnlyOnFirstAcknowledge ==
    [][step'.op = "acknowledgeError" =>
          /\ (step'.ret = "true") <=>
                 (\E i \in DOMAIN errors :
                      errors[i].id = step'.id /\ ~errors[i].acknowledged)
          /\ step'.ret \in {"true", "false"}
          /\ step'.ret = "false" => errors' = errors]_vars

\* the entries of errs that satisfy every given field of filters, in order,
\* truncated to the first limit entries when a limit is given
Matches(e, filters) ==
    /\ filters.component # <<>> => e.component = filters.component[1]
    /\ filters.severity # <<>> => e.severity = filters.severity[1]
    /\ filters.acknowledged # <<>> => e.acknowledged = filters.acknowledged[1]
Selected(errs, filters) ==
    LET matching == SelectSeq(errs, LAMBDA e : Matches(e, filters))
    IN  IF filters.limit # <<>>
        THEN SubSeq(matching, 1, Min(filters.limit[1], Len(matching)))
        ELSE matching

\* C30: getErrors(filter) returns the entries that satisfy every given field
\* of the filter, newest first, truncated to the first limit entries when a
\* limit is given, whatever its value.
C30_GetErrorsFiltersAndTruncates ==
    step.op = "getErrors" => step.result = Selected(errors, step.filter)

\* C31: what getStatistics() returns has total equal to the length of the
\* buffer and to acknowledged + unacknowledged, and the counts of
\* bySeverity and those of byComponent each add up to total.
C31_StatisticsAddUp ==
    step.op = "getStatistics" =>
        /\ step.stats.total = Len(errors)
        /\ step.stats.total = step.stats.acknowledged + step.stats.unacknowledged
        /\ SumOver(step.stats.bySeverity, DOMAIN step.stats.bySeverity) = step.stats.total
        /\ SumOver(step.stats.byComponent, DOMAIN step.stats.byComponent) = step.stats.total

\* Statistics of a buffer holding an acknowledged and an unacknowledged
\* entry of different severities and components.
C31_MixedBufferCounted ==
    /\ step.op = "getStatistics"
    /\ step.stats.acknowledged = 1 /\ step.stats.unacknowledged = 1
    /\ Cardinality(DOMAIN step.stats.bySeverity) = 2
    /\ Cardinality(DOMAIN step.stats.byComponent) = 2
\* C32: clearAcknowledged() removes every acknowledged entry and no
\* unacknowledged one, and returns the number of entries it removed; a
\* second call right after it returns 0 and leaves the buffer as it is.
C32_ClearRemovesAcknowledgedOnly ==
    [][step'.op = "clearAcknowledged" =>
          /\ errors' = SelectSeq(errors, LAMBDA e : ~e.acknowledged)
          /\ \A i \in DOMAIN errors' : ~errors'[i].acknowledged
          /\ step'.count = Len(errors) - Len(errors')
          /\ step'.count = Count(errors, LAMBDA e : e.acknowledged)
          /\ step.op = "clearAcknowledged" => step'.count = 0 /\ errors' = errors]_vars

\* A call that removed one entry and kept the other one.
C32_OneRemovedOneKept ==
    /\ step.op = "clearAcknowledged"
    /\ step.count = 1
    /\ Len(errors) = 1
\* C33: a logError() call notifies the observers once, with a 'new_error'
\* that carries the new event, and the observers find the buffer with the
\* event at its head and already cut to its size; the id it returns is the
\* id of that event; it does so with no database attached, with a stored
\* row and with a failed INSERT alike.
C33_LogErrorNotifiesOnce ==
    [][step'.op = "logError" =>
          /\ Len(step'.events) = 1
          /\ step'.events[1].type = "new_error"
          /\ step'.events[1].error = errors'[1]
          /\ step'.events[1].error.id \notin Ids(errors)
          /\ ~step'.events[1].error.acknowledged
          /\ step'.id = step'.events[1].error.id
          /\ step'.seen = [head |-> step'.id, len |-> Len(errors')]
          /\ step'.seen.len <= maxBufferSize
          /\ step'.persisted \in {"skipped", "stored", "caught"}
          /\ ~step'.uncaught /\ step'.ret # "throw"]_vars

\* A logError() whose INSERT failed and that evicted the oldest entry.
C33_NotifiedAfterEviction ==
    /\ step.op = "logError"
    /\ step.persisted = "caught"
    /\ step.evicted # 0
    /\ step.seen.len = maxBufferSize
Entries(errs) == {errs[i] : i \in DOMAIN errs}

\* C34: an entry of the buffer changes only by being acknowledged: across
\* every step its id, component, severity and message stay as they are and
\* its acknowledged flag stays or goes from false to true; an entry leaves
\* the buffer only as the oldest one at an eviction, or by
\* clearAcknowledged() while it is acknowledged.
C34_EntriesOnlyAcknowledged ==
    [][LET added == Entries(errors') \ Entries(errors)
           removed == Entries(errors) \ Entries(errors')
       IN  /\ \A e \in added :
                 \/ e.acknowledged /\ [e EXCEPT !.acknowledged = FALSE] \in removed
                 \/ /\ \A i \in DOMAIN errors : errors[i].id # e.id
                    /\ e = errors'[1] /\ ~e.acknowledged
           /\ \A e \in removed :
                 \/ ~e.acknowledged /\ [e EXCEPT !.acknowledged = TRUE] \in added
                 \/ /\ step'.op = "logError" /\ step'.evicted = e.id
                    /\ e = errors[Len(errors)] /\ Len(errors) = maxBufferSize
                 \/ step'.op = "clearAcknowledged" /\ e.acknowledged]_vars

\* An entry was acknowledged in a buffer that has evicted an entry before.
C34_AcknowledgedAfterEviction ==
    /\ step.op = "acknowledgeError" /\ step.ret = "true"
    /\ nextId > maxBufferSize + 1
    /\ Len(errors) = maxBufferSize
    /\ \E e \in Entries(errors) : e.id = step.id /\ e.acknowledged
\* C35: a health check that fails puts the component in state 'error' and
\* appends a DiagnosticEvent for that component to the ErrorTracker; so
\* does the database check when db.healthCheck() yields false.
C35_FailedCheckLogged ==
    [][step'.op \in {"checkDatabase", "checkXAPI"} /\ step'.update.state = "error" =>
          /\ status'[step'.update.component].state = "error"
          /\ nextId' = nextId + 1
          /\ errors' # <<>>
          /\ errors'[1].id = nextId
          /\ errors'[1].component = step'.update.component]_vars
\* what the ready state of the session's socket stands for
StreamStateOf(w) ==
    IF w # NullSock /\ w.st = "OPEN" THEN [state |-> "connected", error |-> "null"]
    ELSE IF w # NullSock /\ w.st = "CONNECTING"
         THEN [state |-> "connecting", error |-> "null"]
         ELSE [state |-> "disconnected", error |-> "WebSocket not open"]

\* C36: after a stream check the recorded state of the stream is
\* 'connected' for an open socket, 'connecting' for a socket in its
\* handshake, and 'disconnected' with the error 'WebSocket not open' for
\* every other case (closing, closed, no socket, a session that has given
\* up); a stream check never records 'error'.
C36_StreamClassifiedByReadyState ==
    step.op \in {"intervalTick", "startMonitoring"} =>
        /\ step.update.component = "websocket"
        /\ status["websocket"].state = StreamStateOf(ws).state
        /\ status["websocket"].error = StreamStateOf(ws).error
        /\ status["websocket"].state # "error"
        /\ step.update.state = status["websocket"].state

\* A cycle found the socket of a session that has given up reconnecting.
C36_CheckedAfterGivingUp ==
    /\ step.op = "intervalTick"
    /\ exhausted > 0
    /\ ws # NullSock /\ ws.st = "CLOSED"
    /\ status["websocket"].state = "disconnected"
\* the 'state_change' notifications of a handler run that are about c
ChangesOf(events, c) ==
    SelectSeq(events, LAMBDA e : IsStateChange(e) /\ e.component = c)

\* C37: the 'state_change' notifications of a component form a chain.  The
\* recorded state of every component starts as 'disconnected'; a handler
\* notifies at most once per component; a notification has the recorded
\* state before the handler as its previousState and the recorded state
\* after it as its newState; and the recorded state changes in no step
\* without a notification.  So the first notification of a component has
\* previousState 'disconnected' and every later one continues from the
\* newState of the one before.
C37_StateChangesChain ==
    /\ \A c \in Components : status[c].state = "disconnected"
    /\ [][\A c \in Components :
             LET notes == ChangesOf(step'.events, c)
             IN  /\ Len(notes) <= 1
                 /\ \A i \in DOMAIN notes :
                       /\ notes[i].previousState = status[c].state
                       /\ notes[i].newState = status'[c].state
                 /\ status'[c].state # status[c].state => Len(notes) = 1]_vars

\* The third notification of the database: its reconnect operation ends the
\* error a check has reported, while the check of the next cycle is pending.
C37_ReconnectContinuesChain ==
    /\ step.op = "reconnectDone" /\ step.origin = "database"
    /\ pendingChecks["database"] > 0
    /\ Len(step.events) = 1
    /\ step.events[1].previousState = "error"
    /\ step.events[1].newState = "connected"
    /\ status["database"].state = "connected"
\* the handler run st is the completion of a periodic check of c
CompletesCheck(st, c) ==
    \/ c = "database" /\ st.op = "checkDatabase"
    \/ c = "xapi" /\ st.op = "checkXAPI"

\* C38: when a periodic check of a component is pending while a reconnect
\* operation of that component runs, the check being the one issued first,
\* the state recorded after both have completed is the result of the
\* reconnect operation: the check, completing after it, does not overwrite
\* what the operation recorded.
C38_LaterIssuedResultStands ==
    [][\A c \in {"database", "xapi"} :
          /\ step.op = "reconnectDone" /\ step.origin = c
          /\ pendingChecks[c] > 0
          /\ CompletesCheck(step', c)
          => status'[c].state = status[c].state]_vars
\* C39: every failing check of the token source appends one new
\* DiagnosticEvent for 'xapi', also when the state was 'error' already and
\* no state_change is emitted; once the service is started no other step
\* of these cycles logs, so the events logged since then are as many as the
\* checks that failed.
C39_EveryFailureLogged ==
    [][/\ step'.op = "checkXAPI" /\ step'.update.state = "error" =>
             /\ nextId' = nextId + 1
             /\ Len(errors') = Len(errors) + 1
             /\ errors'[1] = [id |-> nextId, component |-> "xapi", severity |-> "error",
                              message |-> "XAPI health check failed",
                              acknowledged |-> FALSE]
             /\ status["xapi"].state = "error" => StateChanges(step'.events) = <<>>
             /\ status["xapi"].state # "error" => Len(StateChanges(step'.events)) = 1
       /\ phase # "new" /\ nextId' # nextId =>
             step'.op = "checkXAPI" /\ step'.update.state = "error"]_vars

\* The check of a second cycle in a row failed: a second event is logged
\* and there is no notification.
C39_SecondFailureLoggedSilently ==
    /\ step.op = "checkXAPI" /\ step.update.state = "error"
    /\ step.events = <<>>
    /\ nextId = 3
    /\ errors # <<>> /\ errors[1].id = 2 /\ errors[1].component = "xapi"
\* C40: in every state the attempt counter of the session is at least 0
\* and at most 10, whatever the order of 'open', 'error' and 'close'
\* events, timers, and connect() and close() calls from outside.
C40_AttemptsWithinCeiling ==
    /\ reconnectAttempts \in Nat
    /\ 0 <= reconnectAttempts
    /\ reconnectAttempts <= maxReconnectAttempts

\* The operator's reconnect (close(), then connect()) found the counter at
\* the ceiling and left it there.
C40_ExternalCallAtCeiling ==
    /\ step.op = "reconnectWebSocket"
    /\ reconnectAttempts = maxReconnectAttempts
    /\ exhausted > 0
====
